---- MODULE Spec2Model ----
(***************************************************************************)
(* Verification model of the active_inference mock programs and scripts:   *)
(*   - WorkingMemory, Node, Probability, Categorical, ActiveInferenceAgent *)
(*     and VariableElimination of the mock verification programs,          *)
(*   - the mains of the verification programs,                             *)
(*   - the realm deployment shell script,                                  *)
(*   - the comprehensive test runner (main, runParallelTests).             *)
(* Each program is a specification of its own (SpecWM, SpecCPT, SpecNode,  *)
(* SpecCat, SpecAgent, SpecVE, SpecVerify, SpecDeploy, SpecPar, SpecMain); *)
(* the variables of the other programs stay idle.                          *)
(***************************************************************************)
EXTENDS Integers, Sequences, FiniteSets, Bags, TLC

VARIABLES
    \* ---- comprehensive_verify.go: WorkingMemory
    wmCapacity,     \* wm.Capacity
    wmContents,     \* wm.Contents, oldest first
    wmAdded,        \* history: every item passed to AddItem, in call order
    wmErr,          \* return value of the last AddItem ("none" before any call)
    wmPanicked,     \* a runtime panic ended the program
    \* ---- Node.SetCPT of the three mock files
    cptFile,        \* the mock file whose Node is exercised
    cptStates,      \* n.States
    cptTable,       \* n.CPT: parentStates -> row
    cptVals,        \* the probability values the caller passes in this run
    cptArgKey,      \* parentStates of the last SetCPT call ("none" before any)
    cptArgRow,      \* probabilities of the last SetCPT call
    cptErr,         \* return value of the last SetCPT call ("none" before any)
    cptGet,         \* the GetProbability call made since: [called, state, key, ret]
    \* ---- the realm deployment script
    depPc,          \* the step of main the script is at, or "exited"
    depStatus,      \* the exit status, once depPc = "exited"
    depRealm,       \* index in Realms of the realm deploy_all_realms is at
    depADDRESS,     \* $ADDRESS
    depKEY_ADDRESS, \* $KEY_ADDRESS
    depKeyListed,   \* environment: `gnokey list | grep -q "$KEY_NAME"` succeeds
    depBalance,     \* environment: the amount the balance query prints
    depTrace,       \* what the script did, in order: records [ev, realm, ok]
    depConfig,      \* $NETWORK, $KEY_NAME, $GAS_LIMIT, $REMOTE, $CHAINID
    \* ---- test runner: runParallelTests(modules)
    parModules,     \* the modules argument
    parMpc,         \* the caller's goroutine: "spawn", "collect" or "returned"
    parI,           \* its loop counter (goroutines started, then results received)
    parW,           \* per goroutine: [pc, mod, res]
    parChan,        \* resultsChan: the buffered results, oldest first
    parResults,     \* the results slice
    \* ---- test runner: main
    mainPc,         \* "loop", "running" (inside runModuleTests), "summary", "exited"
    mainI,          \* modules of the range loop already processed
    mainResults,    \* results
    mainPassed,     \* passedTests
    mainRunning,    \* indices of the modules whose `gno test` command is running
    mainStarted,    \* the modules whose command was started, in start order
    mainCmdErr,     \* per finished command: cmd.CombinedOutput() returned err != nil
    mainStatus,     \* the exit status, once mainPc = "exited"
    mainOut,        \* the summary lines printed: records [line, n]
    \* ---- verify_examples.go: VariableElimination
    veNetwork,      \* ve.Network.Nodes: records [Name, States, CPT]
    veQuery,        \* the query argument of the last Query call
    veEvidence,     \* the evidence argument of the last Query call
    veResult,       \* the map the last Query call returned
    veCalled,       \* Query was called
    \* ---- comprehensive_verify.go: Probability and Categorical
    catProbs,       \* c.Probs
    catOp,          \* the last Categorical method called ("none" before any)
    catArg,         \* its outcome argument (0 for Entropy)
    catRet,         \* the Probability it returned
    valArg,         \* the receiver of the last Probability.Validate call
    valErr,         \* what that call returned ("none" before any)
    \* ---- comprehensive_verify.go: ActiveInferenceAgent
    agBeliefs,      \* aia.CurrentBeliefs
    agObs,          \* the observation of the last Perceive call
    agErr,          \* what that call returned ("none" before any)
    \* ---- the mains of the verification programs
    vfProg,         \* the verification program that runs
    vfI,            \* the check sites of its main already passed
    vfPassed,       \* testsPassed (stays 0 in the programs without a counter)
    vfFailed,       \* history: the conditions evaluated so far that did not hold
    vfLast,         \* the last check site: [site, evaluated, held, printed, counted]
    vfBanner,       \* the closing banner printed: "none", "success" or "failure"
    \* ---- NewGenerativeModel and main's tests of it
    gmNumLevels,    \* numLevels passed to NewGenerativeModel
    gmStatesPerLevel, \* statesPerLevel passed to NewGenerativeModel
    gmModel,        \* model, the *GenerativeModel returned
    gmPc,           \* the step of main's free-energy tests
    gmLevel,        \* index of the level the prior loop is at
    gmPrior,        \* index of the prior the loop is at
    gmAllUniform,   \* allUniform
    gmOut,          \* the lines printed, in order
    \* ---- tests/test_coverage_report.go
    covPc,          \* the step of the coverage report's main
    covI,           \* index in ReportModules of the next module to analyze
    covReports,     \* reports
    covTotals,      \* totalLinesTested, totalLines, totalFunctions, totalFunctionsTested
    covOverall,     \* overallCoverage
    covFunction,    \* functionCoverage
    covLow          \* modulesWithLowCoverage (module names)

wmVars == <<wmCapacity, wmContents, wmAdded, wmErr, wmPanicked>>
cptVars == <<cptFile, cptStates, cptTable, cptVals, cptArgKey, cptArgRow, cptErr, cptGet>>
depVars == <<depPc, depStatus, depRealm, depADDRESS, depKEY_ADDRESS,
             depKeyListed, depBalance, depTrace, depConfig>>

parVars == <<parModules, parMpc, parI, parW, parChan, parResults>>
mainVars == <<mainPc, mainI, mainResults, mainPassed, mainRunning, mainStarted,
              mainCmdErr, mainStatus, mainOut>>

veVars == <<veNetwork, veQuery, veEvidence, veResult, veCalled>>

catVars == <<catProbs, catOp, catArg, catRet, valArg, valErr>>

agVars == <<agBeliefs, agObs, agErr>>

vfVars == <<vfProg, vfI, vfPassed, vfFailed, vfLast, vfBanner>>

gmVars == <<gmNumLevels, gmStatesPerLevel, gmModel, gmPc, gmLevel, gmPrior, gmAllUniform, gmOut>>

covVars == <<covPc, covI, covReports, covTotals, covOverall, covFunction, covLow>>

vars == <<wmVars, cptVars, depVars, parVars, mainVars, veVars, catVars, agVars, vfVars, gmVars, covVars>>

\* a step of one program leaves the other programs alone
FrameWM == UNCHANGED <<cptVars, depVars, parVars, mainVars, veVars, catVars, agVars, vfVars, gmVars, covVars>>
FrameCPT == UNCHANGED <<wmVars, depVars, parVars, mainVars, veVars, catVars, agVars, vfVars, gmVars, covVars>>
FrameDeploy == UNCHANGED <<wmVars, cptVars, parVars, mainVars, veVars, catVars, agVars, vfVars, gmVars, covVars>>
FramePar == UNCHANGED <<wmVars, cptVars, depVars, mainVars, veVars, catVars, agVars, vfVars, gmVars, covVars>>
FrameMain == UNCHANGED <<wmVars, cptVars, depVars, parVars, veVars, catVars, agVars, vfVars, gmVars, covVars>>
FrameVE == UNCHANGED <<wmVars, cptVars, depVars, parVars, mainVars, catVars, agVars, vfVars, gmVars, covVars>>
FrameCat == UNCHANGED <<wmVars, cptVars, depVars, parVars, mainVars, veVars, agVars, vfVars, gmVars, covVars>>
FrameAgent == UNCHANGED <<wmVars, cptVars, depVars, parVars, mainVars, veVars, catVars, vfVars, gmVars, covVars>>
FrameVerify == UNCHANGED <<wmVars, cptVars, depVars, parVars, mainVars, veVars, catVars, agVars, gmVars, covVars>>
FrameGM == UNCHANGED <<wmVars, cptVars, depVars, parVars, mainVars, veVars, catVars, agVars, vfVars, covVars>>
FrameCov == UNCHANGED <<wmVars, cptVars, depVars, parVars, mainVars, veVars, catVars, agVars, vfVars, gmVars>>

(***************************************************************************)
(* Bounds of the model                                                     *)
(***************************************************************************)
MaxCap == 5         \* largest capacity passed to NewWorkingMemory
MaxAdds == 6        \* longest sequence of AddItem calls
NumItems == 2       \* distinct items that are added

MaxStates == 2      \* most states of a Node, and longest row passed to SetCPT
MaxModules == 3     \* longest module list passed to runParallelTests

MaxNodes == 2       \* most nodes added to a BayesianNetwork

MaxProbs == 3       \* most categories of a Categorical

MaxLevels == 4          \* largest numLevels passed to NewGenerativeModel
MaxStatesPerLevel == 6  \* largest statesPerLevel passed to NewGenerativeModel

MaxFiles == 2           \* most .gno files in a module's directory
MaxReportModules == 2   \* modules of the coverage report's list that are analyzed

Items == 1..NumItems

\* the capacity of the tutorial's memory-capacity exercise
TutorialCapacity == 5

Min(a, b) == IF a < b THEN a ELSE b

\* the last k elements of s
LastN(s, k) == SubSeq(s, Len(s) - k + 1, Len(s))

(***************************************************************************)
(* Probability: a float64.  Finite values are counted in units of 1e-7;    *)
(* NaN is kept apart because every comparison with it is false.            *)
(***************************************************************************)
One == 10000000         \* the literal 1.0
Tolerance == 10         \* the literal 1e-6

Prob(v) == [nan |-> FALSE, v |-> v]
NaN == [nan |-> TRUE, v |-> 0]

PLess(a, b) == ~a.nan /\ ~b.nan /\ a.v < b.v
PAdd(a, b) == IF a.nan \/ b.nan THEN NaN ELSE Prob(a.v + b.v)
PSub(a, b) == IF a.nan \/ b.nan THEN NaN ELSE Prob(a.v - b.v)
\* math.Abs
PAbs(a) == IF a.nan THEN NaN ELSE Prob(IF a.v < 0 THEN 0 - a.v ELSE a.v)

ProbValues ==
    { NaN, Prob(0 - 1), Prob(0),
      Prob(One \div 2 - Tolerance - 1), Prob(One \div 2 - Tolerance + 1),
      Prob(One \div 2), Prob(One), Prob(One + 1) }

\* a nil error
ErrNil == "nil"

ErrRange == "probability must be between 0 and 1"
ErrLength == "probabilities length must match number of states"
ErrSum == "probabilities must sum to 1"

\* a plausible bug of Validate: the bounds are rejected too
ValidateExclusive(p) ==
    IF ~PLess(Prob(0), p) \/ ~PLess(p, Prob(One)) THEN ErrRange ELSE ErrNil

\* Probability.Validate: the error, or nil
Validate(p) == IF PLess(p, Prob(0)) \/ PLess(Prob(One), p) THEN ErrRange ELSE ErrNil

\* sum := Probability(0); for _, p := range probabilities { sum += p }
RECURSIVE SumRow(_)
SumRow(row) == IF row = << >> THEN Prob(0)
               ELSE PAdd(SumRow(SubSeq(row, 1, Len(row) - 1)), row[Len(row)])

(***************************************************************************)
(* Node.SetCPT, one definition per mock file                               *)
(***************************************************************************)
FileCV == "comprehensive_verify.go"
FileSV == "part_002"
FileVE == "verify_examples.go"
MockFiles == {FileCV, FileSV, FileVE}

\* the state lists of the nodes: n distinct names (numbered 1..n), or the
\* first name repeated n times
NodeStates ==
    {[i \in 1..n |-> i] : n \in 0..MaxStates} \cup {[i \in 1..n |-> 1] : n \in 0..MaxStates}
ParentKeys == {"", "invalid"}

\* plausible bugs of SetCPT's validation
SetCPTErrNoRangeCheck(states, row) ==
    IF Len(row) # Len(states) THEN ErrLength
    ELSE IF PLess(Prob(Tolerance), PAbs(PSub(SumRow(row), Prob(One)))) THEN ErrSum
    ELSE ErrNil

\* comprehensive_verify.go: the error SetCPT returns, or nil
SetCPTErrCV(states, row) ==
    IF Len(row) # Len(states) THEN ErrLength
    ELSE IF \E i \in 1..Len(row) : Validate(row[i]) # ErrNil THEN ErrRange
    ELSE IF PLess(Prob(Tolerance), PAbs(PSub(SumRow(row), Prob(One)))) THEN ErrSum
    ELSE ErrNil

\* part_002 (simple verification script): the error SetCPT returns, or nil
SetCPTErrSV(states, row) ==
    IF Len(row) # Len(states) THEN ErrLength
    ELSE IF \E i \in 1..Len(row) : Validate(row[i]) # ErrNil THEN ErrRange
    ELSE IF PLess(Prob(Tolerance), PAbs(PSub(SumRow(row), Prob(One)))) THEN ErrSum
    ELSE ErrNil

\* verify_examples.go: SetCPT stores the row and returns nil
SetCPTErrVE(states, row) == ErrNil

SetCPTErr(file, states, row) ==
    IF file = FileCV THEN SetCPTErrCV(states, row)
    ELSE IF file = FileSV THEN SetCPTErrSV(states, row)
    ELSE SetCPTErrVE(states, row)

\* n.CPT[parentStates] = probabilities
PutRow(table, key, row) ==
    [k \in DOMAIN table \cup {key} |-> IF k = key THEN row ELSE table[k]]

\* no GetProbability call was made since the last SetCPT call
NoGet == [called |-> FALSE, state |-> 0, key |-> "", ret |-> Prob(0)]

\* NewNode(name, states): an empty CPT
NewNode(file, states) ==
    /\ cptFile = file
    /\ cptStates = states
    /\ cptTable = << >>
    /\ cptArgKey = "none"
    /\ cptArgRow = << >>
    /\ cptErr = "none"
    /\ cptGet = NoGet

SetCPT(parentStates, probabilities) ==
    LET err == SetCPTErr(cptFile, cptStates, probabilities) IN
    /\ cptArgKey' = parentStates
    /\ cptArgRow' = probabilities
    /\ cptErr' = err
    /\ cptTable' = IF err = ErrNil
                      THEN PutRow(cptTable, parentStates, probabilities)
                      ELSE cptTable
    /\ cptGet' = NoGet
    /\ UNCHANGED <<cptFile, cptStates, cptVals>>
    /\ FrameCPT

\* a plausible bug: the row's first entry is returned for every state
GetProbabilityFirstEntry(states, table, state, parentStates) ==
    IF parentStates \notin DOMAIN table THEN Prob(0)
    ELSE IF \E i \in 1..Len(states) : states[i] = state
            THEN table[parentStates][1]
            ELSE Prob(0)

\* n.GetProbability(state, parentStates) of comprehensive_verify.go: the entry
\* of the stored row at the first position of `state` in n.States, or 0
GetProbability(states, table, state, parentStates) ==
    IF parentStates \notin DOMAIN table THEN Prob(0)
    ELSE IF \E i \in 1..Len(states) : states[i] = state
            THEN LET i == CHOOSE i \in 1..Len(states) :
                              /\ states[i] = state
                              /\ \A j \in 1..(i - 1) : states[j] # state
                 IN table[parentStates][i]
            ELSE Prob(0)

\* prob := n.GetProbability(state, parentStates)
CallGetProbability(state, parentStates) ==
    /\ cptFile = FileCV
    /\ cptGet' = [called |-> TRUE, state |-> state, key |-> parentStates,
                  ret |-> GetProbability(cptStates, cptTable, state, parentStates)]
    /\ UNCHANGED <<cptFile, cptStates, cptTable, cptVals, cptArgKey, cptArgRow, cptErr>>
    /\ FrameCPT

SeqsUpTo(S, n) == UNION {[1..k -> S] : k \in 0..n}

(***************************************************************************)
(* WorkingMemory (comprehensive_verify.go)                                 *)
(***************************************************************************)
ErrCapacityExceeded == "working memory capacity exceeded"

\* NewWorkingMemory(capacity): empty contents
NewWorkingMemory(capacity) ==
    /\ wmCapacity = capacity
    /\ wmContents = << >>
    /\ wmAdded = << >>
    /\ wmErr = "none"
    /\ wmPanicked = FALSE

\* wm.Contents[1:] panics on an empty slice (slice bounds out of range [1:0])
AddItemPanics(contents, capacity) ==
    Len(contents) >= capacity /\ Len(contents) = 0

\* plausible bugs of AddItem, used to test the claims' formulas
AddItemNoEvict(contents, capacity, item) == Append(contents, item)

AddItemEvictNewest(contents, capacity, item) ==
    Append(IF Len(contents) >= capacity
              THEN SubSeq(contents, 1, Len(contents) - 1)
              ELSE contents, item)

\* the contents after AddItem(item): drop the oldest when full, then append
AddItemContents(contents, capacity, item) ==
    Append(IF Len(contents) >= capacity THEN Tail(contents) ELSE contents, item)

AddItem(item) ==
    /\ ~wmPanicked
    /\ Len(wmAdded) < MaxAdds
    /\ wmAdded' = Append(wmAdded, item)
    /\ IF AddItemPanics(wmContents, wmCapacity)
          THEN /\ wmPanicked' = TRUE
               /\ UNCHANGED <<wmContents, wmErr>>
          ELSE /\ wmContents' = AddItemContents(wmContents, wmCapacity, item)
               /\ wmErr' = ErrNil
               /\ UNCHANGED wmPanicked
    /\ UNCHANGED wmCapacity
    /\ FrameWM

GetContents == wmContents

(***************************************************************************)
(* The realm deployment script (bash, under set -e)                        *)
(***************************************************************************)
\* the realms of deploy_all_realms, in order; the last one is optional
Realms == <<"cognitive_agent", "multi_agent_system", "diagnostic_ai", "financial_trading">>
OptionalRealm == "financial_trading"

\* [ "$BALANCE" -lt 1000 ]
BalanceThreshold == 1000

Balances == {0, BalanceThreshold - 1, BalanceThreshold, BalanceThreshold + 1}

\* some address of an account
SomeAddress == "g1gn6z2xtxj3t3w8vw4tuewwpjx7j2gqwnfcrulu"
\* the address `gnokey list` prints for the key
KeyAddress == "g1keyaddress"

\* the Configuration block at the top of the script, no variable set in the
\* environment: NETWORK=${NETWORK:-"test7"} and the lines after it
DefaultConfig ==
    [NETWORK   |-> "test7",
     KEY_NAME  |-> "active_inference_deployer",
     GAS_LIMIT |-> "8000000",
     REMOTE    |-> "https://test7.gno.land:443",
     CHAINID   |-> "test7"]

\* the defaults the --help text prints
HelpDefaults ==
    [NETWORK   |-> "testnet8",
     KEY_NAME  |-> "active_inference_deployer",
     GAS_LIMIT |-> "200000",
     REMOTE    |-> "https://rpc.gno.land:443",
     CHAINID   |-> "testnet8"]

\* the options of main's case that take a value, with the variable each sets
OptionVariable ==
    [o \in {"--network", "--key", "--remote", "--chainid", "--gas-limit"} |->
        CASE o = "--network"   -> "NETWORK"
          [] o = "--key"       -> "KEY_NAME"
          [] o = "--remote"    -> "REMOTE"
          [] o = "--chainid"   -> "CHAINID"
          [] o = "--gas-limit" -> "GAS_LIMIT"]

\* a value for each of them on the command line
OptionValues ==
    [o \in {"--network", "--key", "--address", "--remote", "--chainid", "--gas-limit"} |->
        CASE o = "--network"   -> "testnet8"
          [] o = "--key"       -> "my_key"
          [] o = "--address"   -> SomeAddress
          [] o = "--remote"    -> "https://rpc.gno.land:443"
          [] o = "--chainid"   -> "testnet8"
          [] o = "--gas-limit" -> "500000"]

Ev(ev, realm, ok) == [ev |-> ev, realm |-> realm, ok |-> ok]
Log(ev) == Ev(ev, "", TRUE)

\* exit N
Exit(status, events) ==
    /\ depPc' = "exited"
    /\ depStatus' = status
    /\ depTrace' = depTrace \o events

\* go on with the next step of the script
Goto(pc, events) ==
    /\ depPc' = pc
    /\ depTrace' = depTrace \o events
    /\ UNCHANGED depStatus

\* main: the while/case loop over the command line
ParseArgs ==
    /\ depPc = "parse_args"
    /\ \E opt \in {"none", "--help", "unknown"} \cup DOMAIN OptionValues :
          IF opt = "--help" THEN
              Exit(0, <<Log("usage")>>) /\ UNCHANGED <<depADDRESS, depConfig>>
          ELSE IF opt = "unknown" THEN
              Exit(1, <<Log("error_unknown_option")>>) /\ UNCHANGED <<depADDRESS, depConfig>>
          ELSE
              /\ depADDRESS' = IF opt = "--address" THEN OptionValues[opt] ELSE depADDRESS
              /\ depConfig' = IF opt \in DOMAIN OptionVariable
                                 THEN [depConfig EXCEPT ![OptionVariable[opt]] = OptionValues[opt]]
                                 ELSE depConfig
              /\ Goto("check_prerequisites", <<Log("configuration")>>)
    /\ UNCHANGED <<depRealm, depKEY_ADDRESS, depKeyListed, depBalance>>
    /\ FrameDeploy

\* check_prerequisites, and main's choice of the next step
CheckPrerequisites ==
    /\ depPc = "check_prerequisites"
    /\ \E missing \in {"none", "gno", "gnokey", "realms"} :
          IF missing # "none" THEN
              Exit(1, <<Ev("error_prerequisite", missing, FALSE)>>)
          ELSE
              Goto(IF depADDRESS = "" THEN "setup_deployment_key" ELSE "check_balance",
                   <<Log("prerequisites_ok")>>)
    /\ UNCHANGED <<depRealm, depADDRESS, depKEY_ADDRESS, depKeyListed, depBalance, depConfig>>
    /\ FrameDeploy

\* a plausible bug: the missing key is only warned about
SetupDeploymentKeyWarnOnly ==
    /\ depPc = "setup_deployment_key"
    /\ IF ~depKeyListed THEN
          Goto("check_balance", <<Log("key_not_found_guidance")>>)
          /\ UNCHANGED depKEY_ADDRESS
       ELSE
          \E addr \in {"", KeyAddress} :
             IF addr = "" THEN
                 Exit(1, <<Log("error_no_key_address")>>) /\ depKEY_ADDRESS' = addr
             ELSE
                 Goto("check_balance", <<Log("key_ready")>>) /\ depKEY_ADDRESS' = addr
    /\ UNCHANGED <<depRealm, depADDRESS, depKeyListed, depBalance, depConfig>>
    /\ FrameDeploy

\* setup_deployment_key
SetupDeploymentKey ==
    /\ depPc = "setup_deployment_key"
    /\ IF ~depKeyListed THEN
          Exit(1, <<Log("key_not_found_guidance")>>) /\ UNCHANGED depKEY_ADDRESS
       ELSE
          \* KEY_ADDRESS=$(gnokey list | grep "$KEY_NAME" | awk '{print $3}')
          \E addr \in {"", KeyAddress} :
             IF addr = "" THEN
                 Exit(1, <<Log("error_no_key_address")>>) /\ depKEY_ADDRESS' = addr
             ELSE
                 Goto("check_balance", <<Log("key_ready")>>) /\ depKEY_ADDRESS' = addr
    /\ UNCHANGED <<depRealm, depADDRESS, depKeyListed, depBalance, depConfig>>
    /\ FrameDeploy

\* a plausible bug: a low balance ends the script
CheckBalanceExitsWhenLow ==
    /\ depPc = "check_balance"
    /\ IF depBalance < BalanceThreshold
          THEN Exit(1, <<Log("balance_checked"), Log("low_balance_guidance")>>)
          ELSE Goto("deploy_all_realms", <<Log("balance_checked")>>)
    /\ UNCHANGED <<depRealm, depADDRESS, depKEY_ADDRESS, depKeyListed, depBalance, depConfig>>
    /\ FrameDeploy

\* check_balance
CheckBalance ==
    /\ depPc = "check_balance"
    /\ Goto("deploy_all_realms",
            IF depBalance < BalanceThreshold
               THEN <<Log("balance_checked"), Log("low_balance_guidance")>>
               ELSE <<Log("balance_checked")>>)
    /\ UNCHANGED <<depRealm, depADDRESS, depKEY_ADDRESS, depKeyListed, depBalance, depConfig>>
    /\ FrameDeploy

\* deploy_all_realms: its first line
DeployAllRealmsStart ==
    /\ depPc = "deploy_all_realms"
    /\ depRealm' = 1
    /\ Goto("deploy_realm", <<Log("deploy_all_realms_started")>>)
    /\ UNCHANGED <<depADDRESS, depKEY_ADDRESS, depKeyListed, depBalance, depConfig>>
    /\ FrameDeploy

\* after the if-block of realm r: the next realm, or the end of deploy_all_realms
AfterRealm(r, events) ==
    IF r < Len(Realms)
       THEN Goto("deploy_realm", events) /\ depRealm' = r + 1
       ELSE Goto("show_summary", events \o <<Log("realms_deployment_completed")>>)
            /\ UNCHANGED depRealm

\* `if deploy_realm NAME PATH; then`: deploy_realm as the condition of an if
\* (for the optional realm, inside `if [ -d PATH ]`)
DeployRealm ==
    /\ depPc = "deploy_realm"
    /\ LET realm == Realms[depRealm] IN
       \E dirExists \in BOOLEAN :
          IF ~dirExists THEN
              IF realm = OptionalRealm
                 THEN AfterRealm(depRealm, << >>)
                 ELSE \* log_error "Realm directory not found"; return 1
                      AfterRealm(depRealm, <<Ev("deploy", realm, FALSE)>>)
          ELSE
              \* the maketx command is echoed, not run; `if true` reports success;
              \* the realm query only chooses between two log lines
              \E verified \in BOOLEAN :
                 /\ Goto("initialize_realm",
                         <<Log("maketx_command_printed"),
                           Ev("deploy", realm, TRUE),
                           Ev("verify", realm, verified)>>)
                 /\ UNCHANGED depRealm
    /\ UNCHANGED <<depADDRESS, depKEY_ADDRESS, depKeyListed, depBalance, depConfig>>
    /\ FrameDeploy

\* a plausible bug: a failed initialization is only logged
InitializeRealmNoErrexit ==
    /\ depPc = "initialize_realm"
    /\ \E ok \in BOOLEAN :
          Goto("test_realm", <<Ev("initialize", Realms[depRealm], ok)>>)
    /\ UNCHANGED <<depRealm, depADDRESS, depKEY_ADDRESS, depKeyListed, depBalance, depConfig>>
    /\ FrameDeploy

\* initialize_realm, a plain command of the then-branch: its `return 1` ends
\* the script under set -e
InitializeRealm ==
    /\ depPc = "initialize_realm"
    /\ \E ok \in BOOLEAN :
          IF ok THEN Goto("test_realm", <<Ev("initialize", Realms[depRealm], TRUE)>>)
                ELSE Exit(1, <<Ev("initialize", Realms[depRealm], FALSE)>>)
    /\ UNCHANGED <<depRealm, depADDRESS, depKEY_ADDRESS, depKeyListed, depBalance, depConfig>>
    /\ FrameDeploy

\* test_realm: a failed call is logged as a warning, the function returns 0
TestRealm ==
    /\ depPc = "test_realm"
    /\ \E ok \in BOOLEAN :
          AfterRealm(depRealm, <<Ev("test", Realms[depRealm], ok)>>)
    /\ UNCHANGED <<depADDRESS, depKEY_ADDRESS, depKeyListed, depBalance, depConfig>>
    /\ FrameDeploy

\* show_summary and the last two lines of main
ShowSummary ==
    /\ depPc = "show_summary"
    /\ Exit(0, <<Log("summary"), Log("script_completed_successfully")>>)
    /\ UNCHANGED <<depRealm, depADDRESS, depKEY_ADDRESS, depKeyListed, depBalance, depConfig>>
    /\ FrameDeploy

\* the script before main runs; ADDRESS=${ADDRESS:-""}
StartScript(envAddress, keyListed, balance) ==
    /\ depPc = "parse_args"
    /\ depStatus = 0
    /\ depRealm = 0
    /\ depADDRESS = envAddress
    /\ depKEY_ADDRESS = ""
    /\ depKeyListed = keyListed
    /\ depBalance = balance
    /\ depTrace = << >>
    /\ depConfig = DefaultConfig

(***************************************************************************)
(* The comprehensive test runner (part_001)                                *)
(***************************************************************************)
\* main's module list
Modules ==
    << "active_inference_core", "advanced_probability", "bayesian_inference",
       "cognitive_modeling", "free_energy_principle", "reinforcement_learning",
       "smart_contracts", "visualization", "probability" >>

\* the module names passed to runParallelTests
ModuleNames == {"probability", "visualization"}

\* TestResult (Output and Duration follow the command and are left out)
TestResult(module, passed) == [Module |-> module, Passed |-> passed]
ZeroTestResult == TestResult("", FALSE)

\* a plausible bug: the command's error is dropped
RunModuleTestsIgnoreErr(module, err) == TestResult(module, TRUE)

\* runModuleTests(module): Passed is err == nil of cmd.CombinedOutput()
RunModuleTests(module, err) == TestResult(module, ~err)

\* ---- runParallelTests

\* plausible bugs of runParallelTests
WorkerModuleLoopVar(k) == parModules[Len(parModules)]
ChanCapOneShort == Len(parModules) - 1

\* the argument bound to mod when goroutine k is started
WorkerModule(k) == parModules[k]

\* make(chan TestResult, len(modules))
ChanCap == Len(parModules)

\* runParallelTests(modules), before its first loop
RunParallelTests(modules) ==
    /\ parModules = modules
    /\ parMpc = "spawn"
    /\ parI = 0
    /\ parW = [k \in 1..Len(modules) |-> [pc |-> "unborn", mod |-> "", res |-> ZeroTestResult]]
    /\ parChan = << >>
    /\ parResults = [k \in 1..Len(modules) |-> ZeroTestResult]

\* for _, module := range modules { go func(mod string) {...}(module) }
ParSpawn ==
    /\ parMpc = "spawn"
    /\ parI < Len(parModules)
    /\ parI' = parI + 1
    /\ parW' = [parW EXCEPT ![parI + 1] =
                   [pc |-> "running", mod |-> WorkerModule(parI + 1), res |-> ZeroTestResult]]
    /\ UNCHANGED <<parModules, parMpc, parChan, parResults>>
    /\ FramePar

\* the range loop ends; i := 0
ParSpawnEnd ==
    /\ parMpc = "spawn"
    /\ parI = Len(parModules)
    /\ parMpc' = "collect"
    /\ parI' = 0
    /\ UNCHANGED <<parModules, parW, parChan, parResults>>
    /\ FramePar

\* goroutine k: runModuleTests(mod) returns
WorkerRun(k) ==
    /\ parW[k].pc = "running"
    /\ \E err \in BOOLEAN :
          parW' = [parW EXCEPT ![k] =
                      [pc |-> "sending", mod |-> @.mod, res |-> RunModuleTests(@.mod, err)]]
    /\ UNCHANGED <<parModules, parMpc, parI, parChan, parResults>>
    /\ FramePar

\* goroutine k: resultsChan <- result (blocks while the buffer is full)
WorkerSend(k) ==
    /\ parW[k].pc = "sending"
    /\ Len(parChan) < ChanCap
    /\ parChan' = Append(parChan, parW[k].res)
    /\ parW' = [parW EXCEPT ![k].pc = "done"]
    /\ UNCHANGED <<parModules, parMpc, parI, parResults>>
    /\ FramePar

\* results[i] = <-resultsChan; i++ (blocks while the buffer is empty)
ParCollect ==
    /\ parMpc = "collect"
    /\ parI < Len(parModules)
    /\ parChan # << >>
    /\ parResults' = [parResults EXCEPT ![parI + 1] = Head(parChan)]
    /\ parChan' = Tail(parChan)
    /\ parI' = parI + 1
    /\ UNCHANGED <<parModules, parMpc, parW>>
    /\ FramePar

\* return results
ParReturn ==
    /\ parMpc = "collect"
    /\ parI = Len(parModules)
    /\ parMpc' = "returned"
    /\ UNCHANGED <<parModules, parI, parW, parChan, parResults>>
    /\ FramePar

\* the steps of the calling goroutine
ParMain == ParSpawn \/ ParSpawnEnd \/ ParCollect \/ ParReturn

\* the steps of goroutine k
Worker(k) == WorkerRun(k) \/ WorkerSend(k)

\* ---- main

\* main before its range loop
StartMain ==
    /\ mainPc = "loop"
    /\ mainI = 0
    /\ mainResults = << >>
    /\ mainPassed = 0
    /\ mainRunning = {}
    /\ mainStarted = << >>
    /\ mainCmdErr = << >>
    /\ mainStatus = 0
    /\ mainOut = {}

\* a plausible bug: the command is started and not waited for
MainStartModuleNoWait ==
    /\ mainPc = "loop"
    /\ mainI < Len(Modules)
    /\ mainRunning' = mainRunning \cup {mainI + 1}
    /\ mainStarted' = Append(mainStarted, Modules[mainI + 1])
    /\ mainI' = mainI + 1
    /\ UNCHANGED <<mainPc, mainResults, mainPassed, mainCmdErr, mainStatus, mainOut>>
    /\ FrameMain

\* the loop body up to cmd.CombinedOutput(): the command of the next module starts
MainStartModule ==
    /\ mainPc = "loop"
    /\ mainI < Len(Modules)
    /\ mainPc' = "running"
    /\ mainRunning' = mainRunning \cup {mainI + 1}
    /\ mainStarted' = Append(mainStarted, Modules[mainI + 1])
    /\ UNCHANGED <<mainI, mainResults, mainPassed, mainCmdErr, mainStatus, mainOut>>
    /\ FrameMain

\* cmd.CombinedOutput() returns; the rest of the loop body
MainFinishModule ==
    /\ mainPc = "running"
    /\ \E err \in BOOLEAN :
          LET result == RunModuleTests(Modules[mainI + 1], err) IN
          /\ mainResults' = Append(mainResults, result)
          /\ mainPassed' = IF result.Passed THEN mainPassed + 1 ELSE mainPassed
          /\ mainCmdErr' = Append(mainCmdErr, err)
    /\ mainRunning' = mainRunning \ {mainI + 1}
    /\ mainI' = mainI + 1
    /\ mainPc' = "loop"
    /\ UNCHANGED <<mainStarted, mainStatus, mainOut>>
    /\ FrameMain

\* a printed line and the number it shows (0 when it shows none)
Line(text, n) == [line |-> text, n |-> n]

\* the lines of "=== TEST RESULTS SUMMARY ==="
SummaryLines(totalTests, passedTests) ==
    { Line("Total Modules", totalTests), Line("Passed", passedTests),
      Line("Failed", totalTests - passedTests) }

\* the summary after the loop, and the exit status
MainSummary ==
    /\ mainPc = "loop"
    /\ mainI = Len(Modules)
    /\ LET totalTests == Len(Modules) IN
       IF mainPassed = totalTests
          THEN /\ mainOut' = SummaryLines(totalTests, mainPassed)
                                \cup {Line("ALL TESTS PASSED", 0)}
               /\ mainStatus' = 0
          ELSE /\ mainOut' = SummaryLines(totalTests, mainPassed)
                                \cup {Line("modules failed", totalTests - mainPassed)}
               /\ mainStatus' = 1
    /\ mainPc' = "exited"
    /\ UNCHANGED <<mainI, mainResults, mainPassed, mainRunning, mainStarted, mainCmdErr>>
    /\ FrameMain

(***************************************************************************)
(* VariableElimination.Query and the networks it is given                  *)
(* (verify_examples.go)                                                    *)
(***************************************************************************)
\* a Probability literal with two decimals, such as 0.32
Hundredths(n) == Prob(n * (One \div 100))

\* an empty Go map
EmptyMap == [x \in {} |-> x]

\* NewNode(name, states)
VENewNode(name, states) == [Name |-> name, States |-> states, CPT |-> EmptyMap]

\* n.SetCPT(parentStates, probabilities) of this file: an unconditional store
VESetCPT(node, parentStates, probabilities) ==
    [node EXCEPT !.CPT = PutRow(@, parentStates, probabilities)]

\* the nodes that are added to a network
VENodes ==
    { VENewNode("Flu", <<"yes", "no">>),
      VESetCPT(VENewNode("Flu", <<"yes", "no">>), "", <<Hundredths(5), Hundredths(95)>>),
      VESetCPT(VENewNode("Flu", <<"yes", "no">>), "", <<Hundredths(50), Hundredths(50)>>),
      VENewNode("Burglary", <<"true", "false">>) }

\* every network of at most MaxNodes nodes
VENetworks == SeqsUpTo(VENodes, MaxNodes)

\* the query maps (their values are never read) and the evidence maps
QueryVars == {"Flu", "Burglary"}
Queries == {[v \in S |-> ""] : S \in SUBSET QueryVars}

EvidenceVars == {"Fever", "Cough", "Fatigue"}
AlarmEvidence == [v \in {"JohnCalls", "MaryCalls"} |-> "true"]
Evidences == UNION {[S -> {"yes", "no"}] : S \in SUBSET EvidenceVars} \cup {AlarmEvidence}

\* v, ok := m[key]; ok && v == value
HasEntry(m, key, value) == key \in DOMAIN m /\ m[key] = value

YesNo(yes, no) == [s \in {"yes", "no"} |-> IF s = "yes" THEN yes ELSE no]

\* a plausible bug: the cough is tested without the fever
QueryFluCoughFirst(evidence) ==
    IF HasEntry(evidence, "Cough", "yes")
       THEN IF HasEntry(evidence, "Fever", "yes")
               THEN YesNo(Hundredths(32), Hundredths(68))
               ELSE YesNo(Hundredths(15), Hundredths(85))
       ELSE YesNo(Hundredths(5), Hundredths(95))

\* the body of `if queryVar == "Flu"`
QueryFlu(evidence) ==
    IF HasEntry(evidence, "Fever", "yes")
       THEN IF HasEntry(evidence, "Cough", "yes")
               THEN YesNo(Hundredths(32), Hundredths(68))
               ELSE YesNo(Hundredths(15), Hundredths(85))
       ELSE YesNo(Hundredths(5), Hundredths(95))

\* a plausible bug: without fever the prior is read from the network's Flu
\* node when it has one
QueryPriorFromNetwork(network, query, evidence) ==
    IF \E queryVar \in DOMAIN query : queryVar = "Flu"
       THEN IF ~HasEntry(evidence, "Fever", "yes")
               /\ \E k \in 1..Len(network) :
                     network[k].Name = "Flu" /\ "" \in DOMAIN network[k].CPT
               THEN LET k == CHOOSE k \in 1..Len(network) :
                                 network[k].Name = "Flu" /\ "" \in DOMAIN network[k].CPT
                    IN YesNo(network[k].CPT[""][1], network[k].CPT[""][2])
               ELSE QueryFlu(evidence)
       ELSE EmptyMap

\* ve.Query(query, evidence) on a VariableElimination over `network`: the map
\* it returns.  Only the key "Flu" of the query writes into the result.
Query(network, query, evidence) ==
    IF \E queryVar \in DOMAIN query : queryVar = "Flu"
       THEN QueryFlu(evidence)
       ELSE EmptyMap

\* NewBayesianNetwork() and NewVariableElimination(network)
NewVariableElimination ==
    /\ veNetwork = << >>
    /\ veQuery = EmptyMap
    /\ veEvidence = EmptyMap
    /\ veResult = EmptyMap
    /\ veCalled = FALSE

\* network.AddNode(node)
VEAddNode(node) ==
    /\ Len(veNetwork) < MaxNodes
    /\ veNetwork' = Append(veNetwork, node)
    /\ UNCHANGED <<veQuery, veEvidence, veResult, veCalled>>
    /\ FrameVE

\* result := ve.Query(query, evidence)
VEQuery(query, evidence) ==
    /\ veQuery' = query
    /\ veEvidence' = evidence
    /\ veResult' = Query(veNetwork, query, evidence)
    /\ veCalled' = TRUE
    /\ UNCHANGED veNetwork
    /\ FrameVE


(***************************************************************************)
(* Probability.Validate calls and Categorical (comprehensive_verify.go)    *)
(***************************************************************************)
\* the category probabilities of the distributions that are built
CatValues == {Prob(0), Hundredths(20), Hundredths(30), Hundredths(50), Prob(One)}

\* math.Log on the finite values above zero of CatValues, rounded to 1e-7;
\* the logarithm of a negative number or of NaN is NaN
LnTable ==
    [v \in {Hundredths(20).v, Hundredths(30).v, Hundredths(50).v, One} |->
        IF v = Hundredths(20).v THEN 0 - 16094379
        ELSE IF v = Hundredths(30).v THEN 0 - 12039728
        ELSE IF v = Hundredths(50).v THEN 0 - 6931472
        ELSE 0]

MathLog(p) == IF p.nan \/ p.v \notin DOMAIN LnTable THEN NaN ELSE Prob(LnTable[p.v])

\* the product of two non-negative fixed-point numbers, split in high and low
\* parts so that no intermediate result leaves the 32-bit integers
MulAbs(x, y) ==
    LET xh == x \div 10000
        xl == x % 10000
        yh == y \div 10000
        yl == y % 10000
    IN xh * yh * 10 + (xh * yl + xl * yh) \div 1000 + (xl * yl) \div One

\* float64 *
PMul(a, b) ==
    IF a.nan \/ b.nan THEN NaN
    ELSE LET m == MulAbs(PAbs(a).v, PAbs(b).v)
         IN Prob(IF (a.v < 0) = (b.v < 0) THEN m ELSE 0 - m)

\* the literal -1e9 of LogProb.  It is far below every logarithm of the
\* table; it is kept at -200 so that it stays inside the 32-bit integers.
NegInfApprox == Prob(0 - 200 * One)

\* c.Prob(outcome); outcomes count from 0
CatProb(probs, outcome) ==
    IF outcome >= 0 /\ outcome < Len(probs) THEN probs[outcome + 1] ELSE Prob(0)

\* c.LogProb(outcome)
CatLogProb(probs, outcome) ==
    LET p == CatProb(probs, outcome) IN
    IF p = Prob(0) THEN NegInfApprox ELSE MathLog(p)

\* c.Entropy(): h -= p * log(p) over the entries above zero
RECURSIVE CatEntropy(_)
CatEntropy(probs) ==
    IF probs = << >> THEN Prob(0)
    ELSE LET h == CatEntropy(SubSeq(probs, 1, Len(probs) - 1))
             p == probs[Len(probs)]
         IN IF PLess(Prob(0), p) THEN PSub(h, PMul(p, MathLog(p))) ELSE h

\* the arguments of the Validate calls; 1.5 is the value of part_002's test
ValidateArgs == ProbValues \cup {Hundredths(150)}

\* NewCategorical(probs)
NewCategorical(probs) ==
    /\ catProbs = probs
    /\ catOp = "none"
    /\ catArg = 0
    /\ catRet = Prob(0)
    /\ valArg = Prob(0)
    /\ valErr = "none"

CallProb(outcome) ==
    /\ catOp' = "Prob"
    /\ catArg' = outcome
    /\ catRet' = CatProb(catProbs, outcome)
    /\ UNCHANGED <<catProbs, valArg, valErr>>
    /\ FrameCat

CallLogProb(outcome) ==
    /\ catOp' = "LogProb"
    /\ catArg' = outcome
    /\ catRet' = CatLogProb(catProbs, outcome)
    /\ UNCHANGED <<catProbs, valArg, valErr>>
    /\ FrameCat

CallEntropy ==
    /\ catOp' = "Entropy"
    /\ catArg' = 0
    /\ catRet' = CatEntropy(catProbs)
    /\ UNCHANGED <<catProbs, valArg, valErr>>
    /\ FrameCat

\* err := p.Validate()
CallValidate(p) ==
    /\ valArg' = p
    /\ valErr' = Validate(p)
    /\ UNCHANGED <<catProbs, catOp, catArg, catRet>>
    /\ FrameCat

(***************************************************************************)
(* ActiveInferenceAgent (comprehensive_verify.go)                          *)
(***************************************************************************)
\* make([]Probability, 4)
BeliefLen == 4

ErrMismatch == "observation length mismatch"

\* the entries of the observations that are perceived
ObsValues == {Hundredths(60), Hundredths(150)}

\* observations of the agent's length, one shorter and one longer
Observations == UNION {[1..n -> ObsValues] : n \in (BeliefLen - 1)..(BeliefLen + 1)}

\* a plausible bug: the copy stops one element early
CopyAllButLast(dst, src) ==
    [i \in 1..Len(dst) |-> IF i < Min(Len(dst), Len(src)) THEN src[i] ELSE dst[i]]

\* copy(dst, src): the first min(len(dst), len(src)) elements are overwritten
Copy(dst, src) ==
    [i \in 1..Len(dst) |-> IF i <= Min(Len(dst), Len(src)) THEN src[i] ELSE dst[i]]

\* NewActiveInferenceAgent()
NewActiveInferenceAgent ==
    /\ agBeliefs = [i \in 1..BeliefLen |-> Prob(0)]
    /\ agObs = << >>
    /\ agErr = "none"

\* err := aia.Perceive(observation)
Perceive(observation) ==
    /\ agObs' = observation
    /\ IF Len(observation) # Len(agBeliefs)
          THEN /\ agErr' = ErrMismatch
               /\ UNCHANGED agBeliefs
          ELSE /\ agBeliefs' = Copy(agBeliefs, observation)
               /\ agErr' = ErrNil
    /\ FrameAgent

(***************************************************************************)
(* The mains of the verification programs: part_002, verify_examples.go    *)
(* and comprehensive_verification.go.  A main is a list of check sites,    *)
(* each printing a pass line, and a closing banner.                        *)
(***************************************************************************)
FileCVN == "comprehensive_verification.go"
VerifyPrograms == {FileSV, FileVE, FileCVN}

\* a check site: cond is "computed" (an if over values of the file itself,
\* holds tells its outcome), "external" (an if over results of packages that
\* are not part of the file) or "none" (the pass line is printed without an
\* if); failLine: the if has an else branch printing a fail line; counted:
\* the pass branch increments testsPassed
Site(cond, holds, failLine, counted) ==
    [cond |-> cond, holds |-> holds, failLine |-> failLine, counted |-> counted]

\* part_002: four ifs with an else branch, no counter
SitesSV ==
    LET probs == <<Hundredths(20), Hundredths(30), Hundredths(50)>>
        states == <<1, 2>>
    IN << Site("computed", ~(CatProb(probs, 0) # Hundredths(20)), TRUE, FALSE),
          Site("computed",
               ~(SetCPTErrSV(states, <<Hundredths(70), Hundredths(30)>>) # ErrNil),
               TRUE, FALSE),
          Site("computed", ~(Validate(Hundredths(150)) = ErrNil), TRUE, FALSE),
          Site("computed",
               ~(SetCPTErrSV(states, <<Hundredths(50), Hundredths(30)>>) = ErrNil),
               TRUE, FALSE) >>

\* verify_examples.go: eleven pass lines, none under an if
SitesVE == [i \in 1..11 |-> Site("none", TRUE, FALSE, FALSE)]

\* comprehensive_verification.go: thirty-four counted tests; the memory and
\* the concurrency test (32 and 33) print and count without an if, the
\* others are ifs without an else branch
SitesCVN ==
    [i \in 1..34 |-> IF i \in {32, 33} THEN Site("none", TRUE, FALSE, TRUE)
                                        ELSE Site("external", TRUE, FALSE, TRUE)]

Sites(prog) ==
    IF prog = FileSV THEN SitesSV
    ELSE IF prog = FileVE THEN SitesVE
    ELSE SitesCVN

\* the outcomes the condition of a site can have
Outcomes(site) == IF site.cond = "external" THEN BOOLEAN ELSE {site.holds}

\* totalTests at the end of main
TotalTests(prog) == Cardinality({i \in 1..Len(Sites(prog)) : Sites(prog)[i].counted})

\* the closing banner: the success lines are under `testsPassed ==
\* totalTests` in comprehensive_verification.go and under no condition in
\* the two other programs
Banner(prog, testsPassed) ==
    IF prog = FileCVN /\ testsPassed # TotalTests(prog) THEN "failure" ELSE "success"

NoSite == [site |-> 0, evaluated |-> FALSE, held |-> FALSE, printed |-> "none",
           counted |-> FALSE]

\* main of prog, before its first check
StartVerify(prog) ==
    /\ vfProg = prog
    /\ vfI = 0
    /\ vfPassed = 0
    /\ vfFailed = 0
    /\ vfLast = NoSite
    /\ vfBanner = "none"

\* the next check site of main
VerifyCheck ==
    /\ vfBanner = "none"
    /\ vfI < Len(Sites(vfProg))
    /\ LET site == Sites(vfProg)[vfI + 1] IN
       \E held \in Outcomes(site) :
          LET evaluated == site.cond # "none"
              pass == ~evaluated \/ held
          IN /\ vfLast' = [site |-> vfI + 1, evaluated |-> evaluated,
                           held |-> evaluated /\ held,
                           printed |-> IF pass THEN "pass"
                                       ELSE IF site.failLine THEN "fail" ELSE "none",
                           counted |-> pass /\ site.counted]
             /\ vfPassed' = IF pass /\ site.counted THEN vfPassed + 1 ELSE vfPassed
             /\ vfFailed' = IF evaluated /\ ~held THEN vfFailed + 1 ELSE vfFailed
    /\ vfI' = vfI + 1
    /\ UNCHANGED <<vfProg, vfBanner>>
    /\ FrameVerify

\* the end of main
VerifyBanner ==
    /\ vfBanner = "none"
    /\ vfI = Len(Sites(vfProg))
    /\ vfBanner' = Banner(vfProg, vfPassed)
    /\ UNCHANGED <<vfProg, vfI, vfPassed, vfFailed, vfLast>>
    /\ FrameVerify

(***************************************************************************)
(* runSequentialTests (part_001)                                           *)
(***************************************************************************)
\* runSequentialTests(modules): one result per module, in the order of the
\* list; err[i] tells whether the command of modules[i] returned an error
RunSequentialTests(modules, err) ==
    [i \in 1..Len(modules) |-> RunModuleTests(modules[i], err[i])]

(***************************************************************************)
(* comprehensive_verify.go: NewGenerativeModel and main's tests of it      *)
(***************************************************************************)
\* x / n for x >= 0 and an int n >= 1, rounded to the nearest unit
PDivInt(x, n) == Prob((2 * x.v + n) \div (2 * n))

\* uniformProb := Probability(1.0 / float64(statesPerLevel))
UniformProb(statesPerLevel) == PDivInt(Prob(One), statesPerLevel)

\* the likelihood matrix of a level that has a level after it: 0.8 on the
\* diagonal, 0.2 / (statesPerLevel-1) elsewhere
LikelihoodMatrix(statesPerLevel) ==
    [j \in 1..statesPerLevel |->
        [k \in 1..statesPerLevel |->
            IF j = k THEN Hundredths(80)
                     ELSE PDivInt(Hundredths(20), statesPerLevel - 1)]]

\* one iteration of `for i := range levels` (i counted from 1)
NewModelLevel(i, numLevels, statesPerLevel, uniformProb) ==
    [States           |-> [j \in 1..statesPerLevel |-> Prob(0)],
     Priors           |-> [j \in 1..statesPerLevel |-> uniformProb],
     Posteriors       |-> [j \in 1..statesPerLevel |-> uniformProb],
     LikelihoodMatrix |-> IF i < numLevels THEN LikelihoodMatrix(statesPerLevel)
                                           ELSE << >>]

\* a plausible bug: the uniform value is taken over the levels
NewGenerativeModelOverLevels(numLevels, statesPerLevel) ==
    [Levels       |-> [i \in 1..numLevels |->
                          NewModelLevel(i, numLevels, statesPerLevel,
                                        UniformProb(numLevels))],
     Precisions   |-> [i \in 1..numLevels |-> Prob(One)],
     LearningRate |-> Hundredths(1)]

\* NewGenerativeModel(numLevels, statesPerLevel), numLevels >= 0 and
\* statesPerLevel >= 0 (with no state there is no prior to assign)
NewGenerativeModel(numLevels, statesPerLevel) ==
    [Levels       |-> [i \in 1..numLevels |->
                          NewModelLevel(i, numLevels, statesPerLevel,
                                        UniformProb(statesPerLevel))],
     Precisions   |-> [i \in 1..numLevels |-> Prob(One)],
     LearningRate |-> Hundredths(1)]

\* model := NewGenerativeModel(numLevels, statesPerLevel), before main's tests
\* of the model
StartGenerativeTests(numLevels, statesPerLevel) ==
    /\ gmNumLevels = numLevels
    /\ gmStatesPerLevel = statesPerLevel
    /\ gmModel = NewGenerativeModel(numLevels, statesPerLevel)
    /\ gmPc = "creation_test"
    /\ gmLevel = 1
    /\ gmPrior = 1
    /\ gmAllUniform = TRUE
    /\ gmOut = << >>

\* if len(model.Levels) == 2 && len(model.Levels[0].States) == 3 {...} else {...}
CreationTest ==
    /\ gmPc = "creation_test"
    /\ gmOut' = Append(gmOut,
                   IF Len(gmModel.Levels) = 2 /\ Len(gmModel.Levels[1].States) = 3
                      THEN "Generative model creation works"
                      ELSE "Generative model creation failed")
    /\ gmPc' = "prior_test"
    /\ UNCHANGED <<gmNumLevels, gmStatesPerLevel, gmModel, gmLevel, gmPrior, gmAllUniform>>
    /\ FrameGM

\* one step of the nested loops over model.Levels and level.Priors: a prior is
\* compared with 1.0/3.0, or a loop ends
PriorTestStep ==
    /\ gmPc = "prior_test"
    /\ IF gmLevel > Len(gmModel.Levels) THEN
           /\ gmPc' = "prior_report"
           /\ UNCHANGED <<gmLevel, gmPrior, gmAllUniform>>
       ELSE IF gmPrior > Len(gmModel.Levels[gmLevel].Priors) THEN
           /\ gmLevel' = gmLevel + 1
           /\ gmPrior' = 1
           /\ UNCHANGED <<gmPc, gmAllUniform>>
       ELSE IF PLess(Prob(Tolerance),
                     PAbs(PSub(gmModel.Levels[gmLevel].Priors[gmPrior], UniformProb(3)))) THEN
           \* allUniform = false; break; and the outer loop's break
           /\ gmAllUniform' = FALSE
           /\ gmPc' = "prior_report"
           /\ UNCHANGED <<gmLevel, gmPrior>>
       ELSE
           /\ gmPrior' = gmPrior + 1
           /\ UNCHANGED <<gmPc, gmLevel, gmAllUniform>>
    /\ UNCHANGED <<gmNumLevels, gmStatesPerLevel, gmModel, gmOut>>
    /\ FrameGM

\* if allUniform {...} else {...}
PriorTestReport ==
    /\ gmPc = "prior_report"
    /\ gmOut' = Append(gmOut, IF gmAllUniform THEN "Prior initialization works"
                                              ELSE "Prior initialization failed")
    /\ gmPc' = "done"
    /\ UNCHANGED <<gmNumLevels, gmStatesPerLevel, gmModel, gmLevel, gmPrior, gmAllUniform>>
    /\ FrameGM

(***************************************************************************)
(* tests/test_coverage_report.go                                           *)
(***************************************************************************)
\* a float64 percentage, in units of 0.001
Pct(n) == n * 1000

\* float64(a) / float64(b) * 100, b > 0
Ratio(a, b) == (a * Pct(100)) \div b

\* a line of a file, after strings.TrimSpace: is it empty, does it start with
\* "//", how often does "func " occur in it, does it start with "func Test"
SrcLine(empty, comment, funcs, test) ==
    [empty |-> empty, comment |-> comment, funcs |-> funcs, test |-> test]
BlankLine == SrcLine(TRUE, FALSE, 0, FALSE)
CommentLine == SrcLine(FALSE, TRUE, 0, FALSE)
CommentFuncLine == SrcLine(FALSE, TRUE, 1, FALSE)    \* "// func f computes ..."
CodeLine == SrcLine(FALSE, FALSE, 0, FALSE)
FuncLine == SrcLine(FALSE, FALSE, 1, FALSE)          \* "func f() {"
TestFuncLine == SrcLine(FALSE, FALSE, 1, TRUE)       \* "func TestF(t *testing.T) {"

\* countLines: the lines that are neither empty nor comments
countLines(content) ==
    Cardinality({i \in 1..Len(content) : ~content[i].empty /\ ~content[i].comment})

\* countFunctions: strings.Count(content, "func ")
RECURSIVE countFunctions(_)
countFunctions(content) ==
    IF content = << >> THEN 0
    ELSE countFunctions(SubSeq(content, 1, Len(content) - 1)) + content[Len(content)].funcs

\* countTestFunctions: the lines that start with "func Test"
countTestFunctions(content) ==
    Cardinality({i \in 1..Len(content) : content[i].test})

\* .gno files a module's directory may hold, in the order filepath.Walk
\* visits them (lexical); test tells strings.HasSuffix(name, "_test.gno")
SampleFiles ==
    << [name |-> "core.gno",      test |-> FALSE, content |-> <<FuncLine, CodeLine>>],
       [name |-> "core_test.gno", test |-> TRUE,
        content |-> <<TestFuncLine, CodeLine, CodeLine>>],
       [name |-> "doc.gno",       test |-> FALSE, content |-> <<CommentFuncLine, BlankLine>>],
       [name |-> "doc_test.gno",  test |-> TRUE,
        content |-> <<CommentLine, TestFuncLine, TestFuncLine>>] >>

\* the directories: sets of at most MaxFiles of these files
Directories == {d \in SUBSET (1..Len(SampleFiles)) : Cardinality(d) <= MaxFiles}

\* the files of directory d in the order of the walk
RECURSIVE WalkOrder(_)
WalkOrder(d) ==
    IF d = {} THEN << >>
    ELSE LET first == CHOOSE i \in d : \A j \in d : i <= j
         IN <<SampleFiles[first]>> \o WalkOrder(d \ {first})

\* report := CoverageReport{ModuleName: moduleName}
EmptyReport(moduleName) ==
    [ModuleName |-> moduleName, TestFiles |-> << >>, MainFiles |-> << >>,
     TestCoverage |-> 0, LinesTested |-> 0, TotalLines |-> 0,
     Functions |-> 0, FunctionsTested |-> 0]

\* the walk callback on one .gno file
VisitFile(report, file) ==
    IF file.test
       THEN [report EXCEPT !.TestFiles = Append(@, file.name),
                           !.LinesTested = @ + countLines(file.content),
                           !.FunctionsTested = @ + countTestFunctions(file.content)]
       ELSE [report EXCEPT !.MainFiles = Append(@, file.name),
                           !.TotalLines = @ + countLines(file.content),
                           !.Functions = @ + countFunctions(file.content)]

\* filepath.Walk over the files
RECURSIVE Walk(_, _)
Walk(report, files) ==
    IF files = << >> THEN report
    ELSE VisitFile(Walk(report, SubSeq(files, 1, Len(files) - 1)), files[Len(files)])

\* "Calculate coverage percentage"
CoveragePercentage(report) ==
    IF report.TotalLines > 0 THEN Ratio(report.LinesTested, report.TotalLines)
                             ELSE 0

\* analyzeModuleCoverage on a directory whose walk visits `files`
analyzeModuleCoverage(moduleName, files) ==
    LET report == Walk(EmptyReport(moduleName), files)
    IN [report EXCEPT !.TestCoverage = CoveragePercentage(report)]

\* main's module list, its first MaxReportModules entries
ReportModules ==
    SubSeq(<< "active_inference_core", "advanced_probability", "bayesian_inference",
              "cognitive_modeling", "free_energy_principle", "reinforcement_learning",
              "smart_contracts", "visualization", "probability" >>,
           1, MaxReportModules)

\* getModulesWithLowCoverage: the reports below the threshold, in order
RECURSIVE getModulesWithLowCoverage(_, _)
getModulesWithLowCoverage(reports, threshold) ==
    IF reports = << >> THEN << >>
    ELSE LET rest == getModulesWithLowCoverage(SubSeq(reports, 1, Len(reports) - 1), threshold)
             last == reports[Len(reports)]
         IN IF last.TestCoverage < threshold THEN Append(rest, last.ModuleName) ELSE rest

NoPercentage == "none"

\* main before its loop over the modules
StartCoverageReport ==
    /\ covPc = "analyze"
    /\ covI = 1
    /\ covReports = << >>
    /\ covTotals = [LinesTested |-> 0, TotalLines |-> 0, Functions |-> 0, FunctionsTested |-> 0]
    /\ covOverall = NoPercentage
    /\ covFunction = NoPercentage
    /\ covLow = << >>

\* one iteration of `for _, module := range modules`; the walk visits the
\* files of the module's directory and may end early with an error, which is
\* printed
AnalyzeModule ==
    /\ covPc = "analyze"
    /\ covI <= Len(ReportModules)
    /\ \E dir \in Directories :
       \E visited \in 0..Cardinality(dir) :
          LET report == analyzeModuleCoverage(ReportModules[covI],
                                              SubSeq(WalkOrder(dir), 1, visited))
          IN /\ covReports' = Append(covReports, report)
             /\ covTotals' = [LinesTested     |-> covTotals.LinesTested + report.LinesTested,
                              TotalLines      |-> covTotals.TotalLines + report.TotalLines,
                              Functions       |-> covTotals.Functions + report.Functions,
                              FunctionsTested |-> covTotals.FunctionsTested
                                                    + report.FunctionsTested]
    /\ covI' = covI + 1
    /\ UNCHANGED <<covPc, covOverall, covFunction, covLow>>
    /\ FrameCov

\* the detailed reports and the overall coverage summary
PrintSummary ==
    /\ covPc = "analyze"
    /\ covI > Len(ReportModules)
    /\ covOverall' = IF covTotals.TotalLines > 0
                        THEN Ratio(covTotals.LinesTested, covTotals.TotalLines)
                        ELSE 0
    /\ covFunction' = IF covTotals.Functions > 0
                         THEN Ratio(covTotals.FunctionsTested, covTotals.Functions)
                         ELSE 0
    /\ covPc' = "recommendations"
    /\ UNCHANGED <<covI, covReports, covTotals, covLow>>
    /\ FrameCov

\* the quality assessment and the recommendations
PrintRecommendations ==
    /\ covPc = "recommendations"
    /\ covLow' = getModulesWithLowCoverage(covReports, Pct(80))
    /\ covPc' = "done"
    /\ UNCHANGED <<covI, covReports, covTotals, covOverall, covFunction>>
    /\ FrameCov

(***************************************************************************)
(* The specifications: one program runs, the others stay idle              *)
(***************************************************************************)
IdleWM == NewWorkingMemory(0)

IdleCPT == NewNode(FileCV, << >>) /\ cptVals = {}

IdleDeploy == StartScript("", FALSE, 0)

IdlePar == RunParallelTests(<< >>)

IdleMain == StartMain

IdleVE == NewVariableElimination

IdleCat == NewCategorical(<< >>)

IdleAgent == NewActiveInferenceAgent

IdleVerify == StartVerify(FileSV)

IdleGM == StartGenerativeTests(2, 3)

IdleCov == StartCoverageReport

\* ---- SpecWM: a WorkingMemory and a sequence of AddItem calls
InitWM == (\E c \in 0..MaxCap : NewWorkingMemory(c)) /\ IdleCPT /\ IdleDeploy /\ IdlePar /\ IdleMain /\ IdleVE /\ IdleCat /\ IdleAgent /\ IdleVerify /\ IdleGM /\ IdleCov

NextWM == \E item \in Items : AddItem(item)

SpecWM == InitWM /\ [][NextWM]_vars

\* ---- SpecCPT: a Node of one mock file and a sequence of SetCPT calls
InitCPT ==
    /\ \E file \in MockFiles, states \in NodeStates :
          NewNode(file, states)
    /\ \E a, b \in ProbValues : cptVals = {a, b}
    /\ IdleWM /\ IdleDeploy /\ IdlePar /\ IdleMain /\ IdleVE /\ IdleCat /\ IdleAgent /\ IdleVerify /\ IdleGM /\ IdleCov

NextCPT ==
    \E key \in ParentKeys, row \in SeqsUpTo(cptVals, MaxStates) :
        SetCPT(key, row)

SpecCPT == InitCPT /\ [][NextCPT]_vars

\* ---- SpecNode: a Node of comprehensive_verify.go, SetCPT and GetProbability
\* calls; the state names asked for include one that no node has
RowValues == {Prob(0), Prob(One \div 2), Prob(One), Prob(One + 1)}

InitNode ==
    /\ \E states \in NodeStates : NewNode(FileCV, states)
    /\ \E a, b \in RowValues : cptVals = {a, b}
    /\ IdleWM /\ IdleDeploy /\ IdlePar /\ IdleMain /\ IdleVE /\ IdleCat /\ IdleAgent /\ IdleVerify /\ IdleGM /\ IdleCov

NextNode ==
    \/ \E key \in ParentKeys, row \in SeqsUpTo(cptVals, MaxStates) :
          SetCPT(key, row)
    \/ \E state \in 1..(MaxStates + 1), key \in ParentKeys :
          CallGetProbability(state, key)

SpecNode == InitNode /\ [][NextNode]_vars

\* ---- SpecDeploy: one run of the deployment script
InitDeploy ==
    /\ \E envAddress \in {"", SomeAddress}, keyListed \in BOOLEAN, balance \in Balances :
          StartScript(envAddress, keyListed, balance)
    /\ IdleWM /\ IdleCPT /\ IdlePar /\ IdleMain /\ IdleVE /\ IdleCat /\ IdleAgent /\ IdleVerify /\ IdleGM /\ IdleCov

NextDeploy ==
    \/ ParseArgs
    \/ CheckPrerequisites
    \/ SetupDeploymentKey
    \/ CheckBalance
    \/ DeployAllRealmsStart
    \/ DeployRealm
    \/ InitializeRealm
    \/ TestRealm
    \/ ShowSummary

SpecDeploy == InitDeploy /\ [][NextDeploy]_vars

\* ---- SpecPar: one call of runParallelTests
InitPar ==
    /\ \E modules \in SeqsUpTo(ModuleNames, MaxModules) : RunParallelTests(modules)
    /\ IdleWM /\ IdleCPT /\ IdleDeploy /\ IdleMain /\ IdleVE /\ IdleCat /\ IdleAgent /\ IdleVerify /\ IdleGM /\ IdleCov

NextPar ==
    \/ ParSpawn
    \/ ParSpawnEnd
    \/ ParCollect
    \/ ParReturn
    \/ \E k \in 1..Len(parModules) : WorkerRun(k)
    \/ \E k \in 1..Len(parModules) : WorkerSend(k)

SpecPar == InitPar /\ [][NextPar]_vars

\* every runnable goroutine is eventually scheduled, and every runModuleTests
\* call returns
FairSpecPar ==
    /\ SpecPar
    /\ WF_vars(ParMain)
    /\ \A k \in 1..MaxModules : WF_vars(k \in 1..Len(parModules) /\ Worker(k))

\* ---- SpecMain: one run of the test runner's main
InitMain == StartMain /\ IdleWM /\ IdleCPT /\ IdleDeploy /\ IdlePar /\ IdleVE /\ IdleCat /\ IdleAgent /\ IdleVerify /\ IdleGM /\ IdleCov

NextMain ==
    \/ MainStartModule
    \/ MainFinishModule
    \/ MainSummary

SpecMain == InitMain /\ [][NextMain]_vars

\* ---- SpecVE: a network is built and queried
InitVE == NewVariableElimination /\ IdleWM /\ IdleCPT /\ IdleDeploy /\ IdlePar /\ IdleMain /\ IdleCat /\ IdleAgent /\ IdleVerify /\ IdleGM /\ IdleCov

NextVE ==
    \/ \E node \in VENodes : VEAddNode(node)
    \/ \E query \in Queries, evidence \in Evidences : VEQuery(query, evidence)

SpecVE == InitVE /\ [][NextVE]_vars


\* ---- SpecCat: a Categorical and calls of its methods and of Validate
InitCat ==
    /\ \E probs \in SeqsUpTo(CatValues, MaxProbs) : NewCategorical(probs)
    /\ IdleWM /\ IdleCPT /\ IdleDeploy /\ IdlePar /\ IdleMain /\ IdleVE /\ IdleAgent /\ IdleVerify /\ IdleGM /\ IdleCov

NextCat ==
    \/ \E outcome \in (0 - 1)..MaxProbs : CallProb(outcome)
    \/ \E outcome \in (0 - 1)..MaxProbs : CallLogProb(outcome)
    \/ CallEntropy
    \/ \E p \in ValidateArgs : CallValidate(p)

SpecCat == InitCat /\ [][NextCat]_vars

\* ---- SpecAgent: an agent and a sequence of Perceive calls
InitAgent ==
    /\ NewActiveInferenceAgent
    /\ IdleWM /\ IdleCPT /\ IdleDeploy /\ IdlePar /\ IdleMain /\ IdleVE /\ IdleCat /\ IdleVerify /\ IdleGM /\ IdleCov

NextAgent == \E observation \in Observations : Perceive(observation)

SpecAgent == InitAgent /\ [][NextAgent]_vars

\* ---- SpecVerify: one run of a verification program
InitVerify ==
    /\ \E prog \in VerifyPrograms : StartVerify(prog)
    /\ IdleWM /\ IdleCPT /\ IdleDeploy /\ IdlePar /\ IdleMain /\ IdleVE /\ IdleCat /\ IdleAgent /\ IdleGM /\ IdleCov

NextVerify ==
    \/ VerifyCheck
    \/ VerifyBanner

SpecVerify == InitVerify /\ [][NextVerify]_vars

\* ---- SpecGM: a generative model is created and main's tests run on it
InitGM ==
    /\ \E numLevels \in 0..MaxLevels, statesPerLevel \in 0..MaxStatesPerLevel :
          StartGenerativeTests(numLevels, statesPerLevel)
    /\ IdleWM /\ IdleCPT /\ IdleDeploy /\ IdlePar /\ IdleMain /\ IdleVE /\ IdleCat /\ IdleAgent /\ IdleVerify /\ IdleCov

NextGM ==
    \/ CreationTest
    \/ PriorTestStep
    \/ PriorTestReport

SpecGM == InitGM /\ [][NextGM]_vars

\* ---- SpecCov: one run of the coverage report
InitCov ==
    /\ StartCoverageReport
    /\ IdleWM /\ IdleCPT /\ IdleDeploy /\ IdlePar /\ IdleMain /\ IdleVE /\ IdleCat /\ IdleAgent /\ IdleVerify /\ IdleGM

NextCov ==
    \/ AnalyzeModule
    \/ PrintSummary
    \/ PrintRecommendations

SpecCov == InitCov /\ [][NextCov]_vars

(***************************************************************************)
(* Claims about WorkingMemory (checked under SpecWM)                       *)
(***************************************************************************)

\* C1: for a memory created with capacity C >= 1, the number of stored items
\* never exceeds C, whatever sequence of AddItem calls is made.
C1_CapacityNeverExceeded ==
    wmCapacity >= 1 => Len(GetContents) <= wmCapacity

\* C1 witness: more items were added than the capacity, and the memory is full.
C1_Witness ==
    /\ wmCapacity >= 1
    /\ Len(wmAdded) > wmCapacity
    /\ Len(GetContents) = wmCapacity

C3_FullAddIsRejected ==
    (wmCapacity = TutorialCapacity /\ Len(wmAdded) = TutorialCapacity + 1) =>
        /\ wmErr = ErrCapacityExceeded
        /\ GetContents = SubSeq(wmAdded, 1, TutorialCapacity)

(***************************************************************************)
(* Claims about Node.SetCPT (checked under SpecCPT)                        *)
(***************************************************************************)

\* the rows the claim says SetCPT must reject: wrong length, an entry < 0 or
\* > 1, or a sum that differs from 1 by more than 1e-6
ClaimedInvalid(states, row) ==
    \/ Len(row) # Len(states)
    \/ \E i \in 1..Len(row) : PLess(row[i], Prob(0)) \/ PLess(Prob(One), row[i])
    \/ PLess(Prob(Tolerance), PAbs(PSub(SumRow(row), Prob(One))))

\* the call was rejected: an error, and the CPT is as before
CallRejected == cptErr' # ErrNil /\ cptTable' = cptTable

\* the call stored its row under its key, changed no other row, returned nil
CallStored ==
    /\ cptErr' = ErrNil
    /\ DOMAIN cptTable' = DOMAIN cptTable \cup {cptArgKey'}
    /\ cptTable'[cptArgKey'] = cptArgRow'
    /\ \A k \in DOMAIN cptTable : k # cptArgKey' => cptTable'[k] = cptTable[k]

\* C4 (as claimed): in every mock file, SetCPT rejects an invalid row and stores
\* nothing, and stores every other row under parentStates and returns nil.
C4_EveryFileValidates ==
    [][IF ClaimedInvalid(cptStates, cptArgRow') THEN CallRejected ELSE CallStored]_cptVars

\* C4 (amended): SetCPT validates in comprehensive_verify.go and in part_002;
\* in verify_examples.go it stores every row under parentStates and returns nil.
C4_ValidatingFilesValidate ==
    [][IF cptFile \in {FileCV, FileSV} /\ ClaimedInvalid(cptStates, cptArgRow')
          THEN CallRejected
          ELSE CallStored]_cptVars

\* C4 witness: a validating file rejected a row whose sum is within 1e-6 of 1
\* because of an out-of-range entry, and the row stored earlier under that key
\* is still there.
C4_Witness ==
    /\ cptFile \in {FileCV, FileSV}
    /\ cptErr = ErrRange
    /\ ~PLess(Prob(Tolerance), PAbs(PSub(SumRow(cptArgRow), Prob(One))))
    /\ cptArgKey \in DOMAIN cptTable
    /\ cptTable[cptArgKey] # cptArgRow

(***************************************************************************)
(* Claims about the deployment script (checked under SpecDeploy)           *)
(***************************************************************************)
InTrace(e) == \E k \in 1..Len(depTrace) : depTrace[k] = e

\* a deploy, initialize or test step of a realm
IsRealmStep(e) == e.ev \in {"deploy", "initialize", "test"}

NoRealmStep == \A k \in 1..Len(depTrace) : ~IsRealmStep(depTrace[k])

\* the script got past check_prerequisites and past the key setup of main
PastKeySetup ==
    /\ InTrace(Log("prerequisites_ok"))
    /\ depPc # "setup_deployment_key"

\* C5 (as claimed): whenever the key is absent from `gnokey list`, the script
\* prints guidance and exits nonzero before any realm deploy, initialize or
\* test step.
C5_MissingKeyAlwaysExits ==
    ~depKeyListed =>
        /\ NoRealmStep
        /\ (depPc = "exited" /\ PastKeySetup) =>
              /\ depStatus # 0
              /\ InTrace(Log("key_not_found_guidance"))

\* C5 (amended): when no address is given (ADDRESS is empty) and the key is
\* absent from `gnokey list`, the script prints guidance and exits nonzero
\* before any realm deploy, initialize or test step.
C5_MissingKeyExitsWithoutAddress ==
    (~depKeyListed /\ depADDRESS = "" /\ PastKeySetup) =>
        /\ depPc = "exited" /\ depStatus # 0
        /\ InTrace(Log("key_not_found_guidance"))
        /\ NoRealmStep

\* C5 witness: the key was looked up, not found, and the script exited with 1.
C5_Witness ==
    /\ ~depKeyListed /\ depADDRESS = "" /\ PastKeySetup
    /\ depPc = "exited" /\ depStatus = 1
    /\ depTrace[Len(depTrace)] = Log("key_not_found_guidance")

BalanceQueried == InTrace(Log("balance_checked"))

\* C6 (as claimed): when the queried balance is below 1000 the script prints
\* guidance and exits nonzero without running deploy_all_realms.
C6_LowBalanceExits ==
    (BalanceQueried /\ depBalance < BalanceThreshold) =>
        /\ InTrace(Log("low_balance_guidance"))
        /\ ~InTrace(Log("deploy_all_realms_started"))
        /\ depPc = "exited" => depStatus # 0

\* C6 (amended): when the queried balance is below 1000 the script prints
\* guidance and goes on: check_balance never ends the script, which exits only
\* after deploy_all_realms has started.
C6_LowBalanceOnlyWarns ==
    (BalanceQueried /\ depBalance < BalanceThreshold) =>
        /\ InTrace(Log("low_balance_guidance"))
        /\ depPc # "check_balance"
        /\ depPc = "exited" => InTrace(Log("deploy_all_realms_started"))

\* C6 witness: with a balance below 1000 a realm was deployed and initialized.
C6_Witness ==
    /\ BalanceQueried /\ depBalance < BalanceThreshold
    /\ InTrace(Ev("initialize", Realms[1], TRUE))

\* the step recorded at position k failed
FailedStep(k) == IsRealmStep(depTrace[k]) /\ ~depTrace[k].ok

\* nothing was done after position k, and the script exited nonzero
StoppedAt(k) == k = Len(depTrace) /\ depPc = "exited" /\ depStatus # 0

\* C7 (as claimed): once the deploy, initialize or test step of a realm fails,
\* the script stops with a nonzero status: no further step, no final
\* 'completed successfully' message.
C7_AnyFailureStops ==
    \A k \in 1..Len(depTrace) : FailedStep(k) => StoppedAt(k)

\* C7 (amended): once the initialize step of a realm fails, the script stops
\* with a nonzero status: no further step, no final 'completed successfully'
\* message.  (A failed deploy step skips that realm; a failed test step is
\* logged; the script goes on in both cases.)
C7_InitializeFailureStops ==
    \A k \in 1..Len(depTrace) :
        (FailedStep(k) /\ depTrace[k].ev = "initialize") => StoppedAt(k)

\* C7 witness: the initialization of the second realm failed, after the first
\* realm's test step had failed.
C7_Witness ==
    /\ InTrace(Ev("test", Realms[1], FALSE))
    /\ depTrace[Len(depTrace)] = Ev("initialize", Realms[2], FALSE)
    /\ depPc = "exited" /\ depStatus = 1

(***************************************************************************)
(* Claims about the test runner (checked under SpecPar, FairSpecPar and    *)
(* SpecMain)                                                               *)
(***************************************************************************)
\* how often x occurs in the sequence s
Count(s, x) == Cardinality({k \in 1..Len(s) : s[k] = x})

ResultModules == [k \in 1..Len(parResults) |-> parResults[k].Module]
WorkerResults == [k \in 1..Len(parW) |-> parW[k].res]

\* C8: under every interleaving runParallelTests returns exactly len(modules)
\* results, with exactly one result for each module passed in: as many results
\* of a module as the list names it, each one the result a goroutine computed.
C8_OneResultPerModule ==
    parMpc = "returned" =>
        /\ Len(parResults) = Len(parModules)
        /\ \A m \in ModuleNames \cup {""} :
              Count(ResultModules, m) = Count(parModules, m)
        /\ \A k \in 1..Len(parResults) :
              Count(parResults, parResults[k]) = Count(WorkerResults, parResults[k])

\* C8 witness: the call returned results of two different modules, received in
\* another order than the modules were listed.
C8_Witness ==
    /\ parMpc = "returned"
    /\ Len(parModules) >= 2
    /\ parResults[1].Module # parModules[1]

AllWorkersDone == \A k \in 1..Len(parModules) : parW[k].pc = "done"

\* no goroutine that is about to send finds the buffer full
NoSendBlocks ==
    \A k \in 1..Len(parModules) : parW[k].pc = "sending" => Len(parChan) < ChanCap

\* C9: provided every runModuleTests call returns, every goroutine completes
\* its send without blocking, and the caller eventually receives all results
\* and returns (no deadlock, no goroutine left behind); with an empty module
\* list the caller never waits.
C9_AlwaysTerminates ==
    /\ []NoSendBlocks
    /\ <>[](parMpc = "returned" /\ AllWorkersDone /\ parChan = << >>)
    /\ [](parModules = << >> => (parMpc = "returned" \/ ENABLED ParMain))

\* C9 witness: every goroutine has sent before the caller received anything:
\* the buffer holds len(modules) >= 2 results.
C9_Witness ==
    /\ Len(parModules) >= 2
    /\ Len(parChan) = Len(parModules)
    /\ AllWorkersDone

\* C10: main runs the module tests one after the other, in the listed order:
\* at most one `gno test` command runs at a time, the command of module i+1
\* starts only when the results of modules 1..i are in, results[i] is the result
\* of modules[i], and after the loop there are results for all nine modules.
C10_MainIsSequential ==
    /\ Cardinality(mainRunning) <= 1
    /\ mainStarted = SubSeq(Modules, 1, Len(mainStarted))
    /\ \A i \in mainRunning : Len(mainResults) = i - 1 /\ Len(mainStarted) = i
    /\ \A i \in 1..Len(mainResults) : mainResults[i].Module = Modules[i]
    /\ mainPc = "exited" => Len(mainResults) = Len(Modules) /\ mainRunning = {}

\* C10 witness: main is through all nine modules, the first failed and the last
\* passed.
C10_Witness ==
    /\ mainPc = "exited"
    /\ Len(mainStarted) = Len(Modules)
    /\ ~mainResults[1].Passed
    /\ mainResults[Len(Modules)].Passed

\* C11: a module counts as passed exactly when its `gno test` command
\* returned no error; the summary's passed and failed counts are the numbers
\* of passed and failed modules and add up to the nine modules; 'ALL TESTS
\* PASSED' is printed exactly when every module passed, and the exit status
\* is 1 exactly when some module failed (0 otherwise).
PassedModules == {k \in 1..Len(mainResults) : mainResults[k].Passed}
FailedModules == {k \in 1..Len(mainResults) : ~mainResults[k].Passed}

C11_SummaryMatchesResults ==
    /\ Len(mainCmdErr) = Len(mainResults)
    /\ \A k \in 1..Len(mainResults) : mainResults[k].Passed <=> ~mainCmdErr[k]
    /\ mainPc = "exited" =>
          /\ Len(mainResults) = 9
          /\ Line("Passed", Cardinality(PassedModules)) \in mainOut
          /\ Line("Failed", Cardinality(FailedModules)) \in mainOut
          /\ \A l \in mainOut : l.line = "Passed" => l.n = Cardinality(PassedModules)
          /\ \A l \in mainOut : l.line = "Failed" => l.n = Cardinality(FailedModules)
          /\ Cardinality(PassedModules) + Cardinality(FailedModules) = 9
          /\ Line("ALL TESTS PASSED", 0) \in mainOut <=> FailedModules = {}
          /\ mainStatus = 1 <=> FailedModules # {}
          /\ mainStatus = 0 <=> FailedModules = {}

\* a run with both outcomes: some commands failed, others did not, and the
\* runner has exited
C11_Witness ==
    /\ mainPc = "exited"
    /\ \E j, k \in 1..Len(mainCmdErr) : mainCmdErr[j] /\ ~mainCmdErr[k]
    /\ mainStatus = 1

(***************************************************************************)
(* Claims about VariableElimination.Query (checked under SpecVE)           *)
(***************************************************************************)

FeverYes == HasEntry(veEvidence, "Fever", "yes")
CoughYes == HasEntry(veEvidence, "Cough", "yes")
FluQueried == veCalled /\ "Flu" \in DOMAIN veQuery

\* C12: the result of Query does not depend on the network: whatever network
\* (of any nodes and CPTs, the empty one included) the engine was built on,
\* the same query and evidence maps give the same result; and a Query call
\* never modifies the network.
C12_QueryIgnoresNetwork ==
    /\ [](veCalled =>
             \A other \in VENetworks : Query(other, veQuery, veEvidence) = veResult)
    /\ [][<<veQuery, veEvidence, veResult, veCalled>>' # <<veQuery, veEvidence, veResult, veCalled>>
             => veNetwork' = veNetwork]_vars

\* Flu was queried without fever on a network whose Flu node has the prior
\* 0.5, and the answer is the built-in prior 0.05
C12_Witness ==
    /\ FluQueried
    /\ ~FeverYes
    /\ \E k \in 1..Len(veNetwork) :
          /\ veNetwork[k].Name = "Flu"
          /\ "" \in DOMAIN veNetwork[k].CPT
          /\ veNetwork[k].CPT[""][1] = Hundredths(50)
    /\ veResult["yes"] = Hundredths(5)

C14_FatigueRaisesPosterior ==
    FluQueried /\ veEvidence = [v \in {"Fatigue"} |-> "yes"] =>
        /\ veResult["yes"] = Hundredths(19)
        /\ PLess(Hundredths(5), veResult["yes"])

\* C15: for every queried variable that is a node of the network, the result
\* has a probability entry for each state of that node, and these entries
\* sum to 1.
C15_EveryNodeIsAnswered ==
    veCalled =>
        \A v \in DOMAIN veQuery, k \in 1..Len(veNetwork) :
            veNetwork[k].Name = v =>
                /\ \A i \in 1..Len(veNetwork[k].States) :
                      veNetwork[k].States[i] \in DOMAIN veResult
                /\ SumRow([i \in 1..Len(veNetwork[k].States) |->
                              veResult[veNetwork[k].States[i]]]) = Prob(One)

(***************************************************************************)
(* Claims about Probability and Categorical (checked under SpecCat)        *)
(***************************************************************************)

\* p lies in [0, 1]
InUnitInterval(p) == ~p.nan /\ 0 <= p.v /\ p.v <= One

\* probs is a probability distribution: entries in [0, 1] that sum to 1
IsDistribution(probs) ==
    /\ \A i \in 1..Len(probs) : InUnitInterval(probs[i])
    /\ SumRow(probs) = Prob(One)

\* C16: every Probability a Categorical method returns lies in [0, 1], here
\* for a Categorical over a probability distribution.
C16_ReturnsAreBounded ==
    catOp # "none" /\ IsDistribution(catProbs) => InUnitInterval(catRet)

\* C17: Probability.Validate returns an error exactly when the value is
\* below 0 or above 1: the bounds 0 and 1 are accepted and every value
\* outside, such as 1.5, is rejected.
C17_ValidateRange ==
    valErr # "none" =>
        /\ valErr \in {ErrNil, ErrRange}
        /\ valErr = ErrRange <=> ~valArg.nan /\ (valArg.v < 0 \/ valArg.v > One)
        /\ valArg \in {Prob(0), Prob(One)} => valErr = ErrNil
        /\ valArg = Hundredths(150) => valErr = ErrRange

\* the bound 1 has been validated and accepted
C17_Witness == valArg = Prob(One) /\ valErr = ErrNil

(***************************************************************************)
(* Claims about ActiveInferenceAgent.Perceive (checked under SpecAgent)    *)
(***************************************************************************)

\* C19: Perceive with an observation of the agent's belief length (4)
\* returns nil, and afterwards CurrentBeliefs equals the observation element
\* by element; so after every successful call the beliefs are the most
\* recent observation, and their length stays 4.
C19_BeliefsAreLastObservation ==
    /\ Len(agBeliefs) = 4
    /\ agErr # "none" /\ Len(agObs) = 4 => agErr = ErrNil
    /\ agErr = ErrNil =>
          /\ Len(agObs) = Len(agBeliefs)
          /\ \A i \in 1..Len(agObs) : agBeliefs[i] = agObs[i]

\* a successful Perceive whose observation has two different entries, the
\* last one among them
C19_Witness ==
    /\ agErr = ErrNil
    /\ agObs[1] # agObs[4]
    /\ agBeliefs[4] = Hundredths(150)

(***************************************************************************)
(* Claims about Node.GetProbability (checked under SpecNode)               *)
(***************************************************************************)

\* the state names of the node are pairwise distinct
DistinctStates ==
    \A i, j \in 1..Len(cptStates) : cptStates[i] = cptStates[j] => i = j

\* C20: after a successful SetCPT(ps, probs) on a node with distinct state
\* names, GetProbability(States[i], ps) returns probs[i] for every i (a later
\* successful SetCPT for the same key having replaced the row);
\* GetProbability returns 0 for a parent-state key with no stored row and for
\* a state name that is not in States.
C20_GetReturnsStoredRow ==
    cptGet.called =>
        /\ cptErr = ErrNil /\ cptGet.key = cptArgKey /\ DistinctStates =>
              \A i \in 1..Len(cptStates) :
                  cptGet.state = cptStates[i] => cptGet.ret = cptArgRow[i]
        /\ cptGet.key \notin DOMAIN cptTable => cptGet.ret = Prob(0)
        /\ (\A i \in 1..Len(cptStates) : cptStates[i] # cptGet.state) =>
              cptGet.ret = Prob(0)

\* the second state's entry of a row that was just stored is read back, and
\* it differs from the first entry
C20_Witness ==
    /\ cptGet.called
    /\ cptErr = ErrNil
    /\ cptGet.key = cptArgKey
    /\ DistinctStates
    /\ Len(cptStates) = 2
    /\ cptGet.state = cptStates[2]
    /\ cptArgRow[1] # cptArgRow[2]
    /\ cptGet.ret = cptArgRow[2]

(***************************************************************************)
(* Claims about the verification programs (checked under SpecVerify)       *)
(***************************************************************************)

\* C18: a check is reported and counted as passed only when its condition
\* was evaluated and held, a check whose condition fails produces a fail
\* line, and the closing success banner is printed only when no check
\* failed.
C18_ReportsAreEarned ==
    /\ vfLast.printed = "pass" => vfLast.evaluated /\ vfLast.held
    /\ vfLast.counted => vfLast.evaluated /\ vfLast.held
    /\ vfLast.evaluated /\ ~vfLast.held => vfLast.printed = "fail"
    /\ vfBanner = "success" => vfFailed = 0

(***************************************************************************)
(* Further claims about Node.SetCPT (SpecCPT), WorkingMemory (SpecWM) and  *)
(* runParallelTests (SpecPar)                                              *)
(***************************************************************************)

\* the row has one entry per state, each in [0, 1], summing to 1 within 1e-6
IsValidRow(states, row) ==
    /\ Len(row) = Len(states)
    /\ \A i \in 1..Len(row) : InUnitInterval(row[i])
    /\ LET diff == PAbs(PSub(SumRow(row), Prob(One)))
       IN ~diff.nan /\ diff.v <= Tolerance

\* C25: after any sequence of SetCPT calls on a node of
\* comprehensive_verify.go every stored row has len(States) entries, each in
\* [0, 1], summing to 1 within 1e-6; and a rejected call leaves the CPT as it
\* was.
C25_StoredRowsAreValid ==
    /\ [](cptFile = FileCV =>
             \A key \in DOMAIN cptTable : IsValidRow(cptStates, cptTable[key]))
    /\ [][cptFile = FileCV /\ cptErr' # ErrNil => cptTable' = cptTable]_vars

\* C26: for every capacity >= 0, zero included, every AddItem call completes
\* without a runtime panic and returns nil.
C26_AddItemNeverFails ==
    /\ ~wmPanicked
    /\ wmAdded # << >> => wmErr = ErrNil

\* C27: whatever the interleaving, the results runParallelTests returns are
\* the ones runSequentialTests returns for the same commands: results[i] is
\* the result of modules[i].
C27_ParallelEqualsSequential ==
    parMpc = "returned" =>
        parResults = RunSequentialTests(parModules,
                         [i \in 1..Len(parModules) |-> ~parW[i].res.Passed])

(***************************************************************************)
(* Further claims about the deployment script (SpecDeploy)                 *)
(***************************************************************************)

\* C22: the defaults in effect are the ones --help documents (network
\* testnet8, chain ID testnet8, remote https://rpc.gno.land:443, gas limit
\* 200000): each of the four settings the script runs with is the documented
\* default unless the command line gave it.
C22_DefaultsAreDocumented ==
    \A o \in {"--network", "--chainid", "--remote", "--gas-limit"} :
        LET v == OptionVariable[o]
        IN depConfig[v] \in {HelpDefaults[v], OptionValues[o]}

\* C23: deploy_realm reports '<realm> realm deployed successfully' only after
\* the script has executed a `gnokey maketx addpkg` transaction for that realm
\* with success.
C23_DeployedOnlyAfterMaketx ==
    \A k \in 1..Len(depTrace) :
        depTrace[k].ev = "deploy" /\ depTrace[k].ok =>
            \E j \in 1..(k - 1) :
                depTrace[j] = Ev("maketx_executed", depTrace[k].realm, TRUE)

\* C24: every initialize_realm call passes a non-empty owner: once
\* deploy_all_realms has called initialize_realm "<realm>" "Deploy"
\* "$KEY_ADDRESS", with or without --address, KEY_ADDRESS is the address of
\* the existing key.
C24_OwnerIsKeyAddress ==
    (\E k \in 1..Len(depTrace) : depTrace[k].ev = "initialize") =>
        depKEY_ADDRESS = KeyAddress

(***************************************************************************)
(* Claims about NewGenerativeModel (SpecGM)                                *)
(***************************************************************************)

\* p is 1/n to the last unit kept
IsOneOverN(p, n) ==
    /\ ~p.nan
    /\ (IF p.v * n < One THEN One - p.v * n ELSE p.v * n - One) <= n

\* the level has n states, priors and posteriors, every prior and posterior is
\* 1/n, and the priors sum to 1 within 1e-6
IsUniformLevel(level, n) ==
    /\ Len(level.States) = n
    /\ Len(level.Priors) = n
    /\ Len(level.Posteriors) = n
    /\ \A j \in 1..n : IsOneOverN(level.Priors[j], n) /\ IsOneOverN(level.Posteriors[j], n)
    /\ LET diff == PAbs(PSub(SumRow(level.Priors), Prob(One)))
       IN ~diff.nan /\ diff.v <= Tolerance

\* C21: NewGenerativeModel(numLevels, statesPerLevel), statesPerLevel >= 1,
\* creates exactly numLevels levels, each with statesPerLevel states and with
\* every prior and posterior equal to 1/statesPerLevel, so that the priors of
\* each level sum to 1.
C21_UniformLevels ==
    gmStatesPerLevel >= 1 =>
        /\ Len(gmModel.Levels) = gmNumLevels
        /\ \A i \in 1..Len(gmModel.Levels) :
              IsUniformLevel(gmModel.Levels[i], gmStatesPerLevel)

\* the model of main, NewGenerativeModel(2, 3), passed both of main's tests
C21_Witness ==
    /\ gmNumLevels = 2
    /\ gmStatesPerLevel = 3
    /\ gmPc = "done"
    /\ gmOut = <<"Generative model creation works", "Prior initialization works">>

(***************************************************************************)
(* Claims about the coverage report (SpecCov)                              *)
(***************************************************************************)

IsPercentage(p) == p >= 0 /\ p <= Pct(100)

\* C28: every coverage percentage of the report lies between 0 and 100
\* inclusive: the line coverage of every module, and the overall line and
\* function coverage; a module with TotalLines = 0 has coverage 0.
C28_CoverageIsPercentage ==
    /\ \A i \in 1..Len(covReports) :
          /\ IsPercentage(covReports[i].TestCoverage)
          /\ covReports[i].TotalLines = 0 => covReports[i].TestCoverage = 0
    /\ covOverall # NoPercentage => IsPercentage(covOverall)
    /\ covFunction # NoPercentage => IsPercentage(covFunction)

====
